---- MODULE Spec2Model ----
(***************************************************************************)
(* A model of streamlit_insurance_app.py: one Streamlit process serving    *)
(* one browser session.  Every UI event re-executes the script from its    *)
(* first line to its last; the model follows one execution section by      *)
(* section (pc), with the files it reads, the st.cache_resource entry of   *)
(* load_model, the widget values of the session and the elements rendered. *)
(*                                                                         *)
(* Units: bmi is held in hundredths (27.5 is 2750; st.number_input steps   *)
(* a float by 0.01), a predicted charge in cents.  Page names are the      *)
(* radio labels without their emoji.                                       *)
(***************************************************************************)
EXTENDS Integers, Sequences, FiniteSets, TLC

\* Bound of the model: joblib.load calls followed within one process lifetime.
MaxReads == 2

\* Limits of the number inputs (lines 94, 95, 98).
MinAge == 0
MaxAge == 100
MinBmi == 0
MaxBmi == 8000
MinChildren == 0
MaxChildren == 10

\* Values the number inputs are exercised with.
Ages == {MinAge, 35}
Bmis == {MinBmi, 2750}
ChildrenCounts == {MinChildren, 2}

\* Options of the select boxes, in the order the code lists them.
SmokerOptions == <<"yes", "no">>
SexOptions == <<"male", "female">>
RegionOptions_WithNortheast == <<"northeast", "northwest", "southeast", "southwest">>
RegionOptions == <<"northwest", "southeast", "southwest">>

\* Options of the sidebar radio.
Pages == <<"Home", "Predict", "Analytics", "Upload">>

Range(s) == {s[i] : i \in DOMAIN s}

\* What the Predict page's widgets can return.
Forms ==
    [age : Ages, bmi : Bmis, children : ChildrenCounts,
     smoker : Range(SmokerOptions), sex : Range(SexOptions),
     region : Range(RegionOptions)]

\* A widget's value before the user touches it: a number input starts at its
\* minimum, a select box and a radio at their first option.
DefaultForm ==
    [age |-> MinAge, bmi |-> MinBmi, children |-> MinChildren,
     smoker |-> SmokerOptions[1], sex |-> SexOptions[1],
     region |-> RegionOptions[1]]

\* Charges the regressor is let return (it is external to the repository).
Charges == {0, 1327045}

\* A DataFrame of one row: its columns in order, and the row.
NoFrame == [columns |-> <<>>, row |-> <<>>]

\* Mutants of the encoder.
Encode_SouthwestTestsSoutheast(r) ==
    [columns |-> <<"age", "bmi", "children", "smoker", "sex_male",
                   "region_northwest", "region_southeast", "region_southwest">>,
     row |-> <<r.age, r.bmi, r.children,
               IF r.smoker = "yes" THEN 1 ELSE 0,
               IF r.sex = "male" THEN 1 ELSE 0,
               IF r.region = "northwest" THEN 1 ELSE 0,
               IF r.region = "southeast" THEN 1 ELSE 0,
               IF r.region = "southeast" THEN 1 ELSE 0>>]

Encode_SmokerInverted(r) ==
    [columns |-> <<"age", "bmi", "children", "smoker", "sex_male",
                   "region_northwest", "region_southeast", "region_southwest">>,
     row |-> <<r.age, r.bmi, r.children,
               IF r.smoker = "no" THEN 1 ELSE 0,
               IF r.sex = "male" THEN 1 ELSE 0,
               IF r.region = "northwest" THEN 1 ELSE 0,
               IF r.region = "southeast" THEN 1 ELSE 0,
               IF r.region = "southwest" THEN 1 ELSE 0>>]

Encode_SexFemale(r) ==
    [columns |-> <<"age", "bmi", "children", "smoker", "sex_male",
                   "region_northwest", "region_southeast", "region_southwest">>,
     row |-> <<r.age, r.bmi, r.children,
               IF r.smoker = "yes" THEN 1 ELSE 0,
               IF r.sex = "female" THEN 1 ELSE 0,
               IF r.region = "northwest" THEN 1 ELSE 0,
               IF r.region = "southeast" THEN 1 ELSE 0,
               IF r.region = "southwest" THEN 1 ELSE 0>>]

Encode_SexBeforeSmoker(r) ==
    [columns |-> <<"age", "bmi", "children", "sex_male", "smoker",
                   "region_northwest", "region_southeast", "region_southwest">>,
     row |-> <<r.age, r.bmi, r.children,
               IF r.sex = "male" THEN 1 ELSE 0,
               IF r.smoker = "yes" THEN 1 ELSE 0,
               IF r.region = "northwest" THEN 1 ELSE 0,
               IF r.region = "southeast" THEN 1 ELSE 0,
               IF r.region = "southwest" THEN 1 ELSE 0>>]

\* input_df = pd.DataFrame({...}): the dict's keys in insertion order are the
\* columns, each value a list of one element.
Encode(r) ==
    [columns |-> <<"age", "bmi", "children", "smoker", "sex_male",
                   "region_northwest", "region_southeast", "region_southwest">>,
     row |-> <<r.age, r.bmi, r.children,
               IF r.smoker = "yes" THEN 1 ELSE 0,
               IF r.sex = "male" THEN 1 ELSE 0,
               IF r.region = "northwest" THEN 1 ELSE 0,
               IF r.region = "southeast" THEN 1 ELSE 0,
               IF r.region = "southwest" THEN 1 ELSE 0>>]

\* Python truthiness of what json.load returned: None and an empty document
\* are false.
Truthy(a) == a = "data"

VARIABLES
    modelFile,      \* optimized_random_forest_model.joblib: "ok" | "missing"
    animFile,       \* animation.json: "ok" | "empty" | "missing" | "corrupt"
    dataFile,       \* insurance.csv: "ok" | "missing" | "corrupt" | "no_age" | "no_bmi"
    cached,         \* st.cache_resource holds load_model's return value
    artifactReads,  \* joblib.load calls since the process started
    menu,           \* value of the sidebar radio
    form,           \* values of the Predict page's six inputs
    button,         \* the Predict button was clicked in this event
    uploaded,       \* the file uploader's file: "none" | "ok" | "bad"
    widgets,        \* the widgets the browser shows: those the current (or last) run rendered
    pc,             \* where the script is
    model,          \* script variable model: "unset" | "rf"
    animation,      \* script variable animation: "unset" | "None" | "empty" | "data"
    input_df,       \* script variable input_df
    prediction,     \* script variable prediction: <<>> while unbound
    df,             \* script variable df: "unset" | "dataset" | "uploaded"
    fig,            \* script variable fig: "unset" | "age" | "bmi" | "smoker"
    calls,          \* the arguments of this run's model.predict calls
    out             \* the elements this run rendered, in order

vars ==
    <<modelFile, animFile, dataFile, cached, artifactReads, menu, form, button,
      uploaded, widgets, pc, model, animation, input_df, prediction, df, fig,
      calls, out>>

files == <<modelFile, animFile, dataFile>>
cache == <<cached, artifactReads>>
session == <<menu, form, button, uploaded>>
locals == <<model, animation, input_df, prediction, df, fig, calls>>

ModelFiles == {"ok", "missing"}
AnimFiles == {"ok", "empty", "missing", "corrupt"}
DataFiles == {"ok", "missing", "corrupt", "no_age", "no_bmi"}
Uploads == {"none", "ok", "bad"}

\* No script is running.
Idle == pc \in {"idle", "done", "aborted"}

\* A run may start (the bound on artifactReads).
CanRun == cached \/ artifactReads < MaxReads

\* A run starts: the script's namespace is new, nothing is rendered yet.
StartRun ==
    /\ pc' = "load_model"
    /\ model' = "unset"
    /\ animation' = "unset"
    /\ input_df' = NoFrame
    /\ prediction' = <<>>
    /\ df' = "unset"
    /\ fig' = "unset"
    /\ calls' = <<>>
    /\ out' = <<>>
    /\ widgets' = {}

Init ==
    /\ modelFile \in ModelFiles
    /\ animFile \in AnimFiles
    /\ dataFile \in DataFiles
    /\ cached = FALSE
    /\ artifactReads = 0
    /\ menu = Pages[1]
    /\ form = DefaultForm
    /\ button = FALSE
    /\ uploaded = "none"
    /\ widgets = {}
    /\ pc = "idle"
    /\ model = "unset"
    /\ animation = "unset"
    /\ input_df = NoFrame
    /\ prediction = <<>>
    /\ df = "unset"
    /\ fig = "unset"
    /\ calls = <<>>
    /\ out = <<>>


(***************************************************************************)
(* The environment: the files, and the process.                            *)
(***************************************************************************)

\* optimized_random_forest_model.joblib is put in place or removed.
SetModelFile ==
    /\ Idle
    /\ \E f \in ModelFiles \ {modelFile} : modelFile' = f
    /\ UNCHANGED <<animFile, dataFile, cache, session, widgets, pc, locals, out>>

\* animation.json is put in place, emptied, damaged or removed.
SetAnimFile ==
    /\ Idle
    /\ \E f \in AnimFiles \ {animFile} : animFile' = f
    /\ UNCHANGED <<modelFile, dataFile, cache, session, widgets, pc, locals, out>>

\* insurance.csv is put in place, damaged or removed.
SetDataFile ==
    /\ Idle
    /\ \E f \in DataFiles \ {dataFile} : dataFile' = f
    /\ UNCHANGED <<modelFile, animFile, cache, session, widgets, pc, locals, out>>

\* The process is restarted: its cache, its script state and what its last
\* run rendered are gone.  The browser either still shows the last page's
\* widgets, with their values, or is opened anew.
ProcessRestart ==
    /\ Idle
    /\ cached' = FALSE
    /\ artifactReads' = 0
    /\ pc' = "idle"
    /\ model' = "unset"
    /\ animation' = "unset"
    /\ input_df' = NoFrame
    /\ prediction' = <<>>
    /\ df' = "unset"
    /\ fig' = "unset"
    /\ calls' = <<>>
    /\ out' = <<>>
    /\ button' = FALSE
    /\ \/ UNCHANGED <<menu, form, uploaded, widgets>>
       \/ /\ menu' = Pages[1]
          /\ form' = DefaultForm
          /\ uploaded' = "none"
          /\ widgets' = {}
    /\ UNCHANGED files

(***************************************************************************)
(* UI events.  Each starts one run of the script.  A widget can be used    *)
(* only while the page shows it; st.button returns True in the run its     *)
(* click started and in no other.                                          *)
(***************************************************************************)

\* The browser opens the app: a session with every widget at its default.
NewSession ==
    /\ Idle
    /\ CanRun
    /\ menu' = Pages[1]
    /\ form' = DefaultForm
    /\ uploaded' = "none"
    /\ button' = FALSE
    /\ StartRun
    /\ UNCHANGED <<files, cache>>

\* The script is rerun with nothing changed.  After a run that rendered no
\* widget at all, the session may have dropped the widgets' values.
Rerun ==
    /\ pc \in {"done", "aborted"}
    /\ CanRun
    /\ button' = FALSE
    /\ \/ UNCHANGED <<menu, form, uploaded>>
       \/ /\ pc = "aborted"
          /\ widgets = {}
          /\ menu' = Pages[1]
          /\ form' = DefaultForm
          /\ uploaded' = "none"
    /\ StartRun
    /\ UNCHANGED <<files, cache>>

\* st.sidebar.radio: another page is chosen.  The widgets of the page left
\* are not rendered again, and their values are dropped.
Navigate ==
    /\ Idle
    /\ CanRun
    /\ "menu" \in widgets
    /\ \E m \in Range(Pages) \ {menu} : menu' = m
    /\ form' = DefaultForm
    /\ uploaded' = "none"
    /\ button' = FALSE
    /\ StartRun
    /\ UNCHANGED <<files, cache>>

\* One of the six inputs of the Predict page is changed.
EditForm ==
    /\ Idle
    /\ CanRun
    /\ "form" \in widgets
    /\ \E f \in Forms :
          /\ Cardinality({k \in DOMAIN form : f[k] # form[k]}) = 1
          /\ form' = f
    /\ button' = FALSE
    /\ StartRun
    /\ UNCHANGED <<files, cache, menu, uploaded>>

\* st.button("Predict") is clicked.
ClickPredict ==
    /\ Idle
    /\ CanRun
    /\ "button" \in widgets
    /\ button' = TRUE
    /\ StartRun
    /\ UNCHANGED <<files, cache, menu, form, uploaded>>

\* st.file_uploader: a file is chosen, replaced or removed.
UploadFile ==
    /\ Idle
    /\ CanRun
    /\ "uploader" \in widgets
    /\ \E u \in Uploads \ {uploaded} : uploaded' = u
    /\ button' = FALSE
    /\ StartRun
    /\ UNCHANGED <<files, cache, menu, form>>


(***************************************************************************)
(* The script, section by section.                                         *)
(***************************************************************************)

\* Mutant: load_model without @st.cache_resource.
LoadModel_NoCache ==
    /\ pc = "load_model"
    /\ \/ /\ modelFile = "ok"
          /\ artifactReads' = artifactReads + 1
          /\ cached' = TRUE
          /\ model' = "rf"
          /\ pc' = "page_config"
       \/ /\ modelFile # "ok"
          /\ artifactReads' = artifactReads + 1
          /\ pc' = "aborted"
          /\ UNCHANGED <<cached, model>>
    /\ UNCHANGED <<files, session, widgets, animation, input_df, prediction,
                   df, fig, calls, out>>

\* Mutant: a failed load is swallowed and the script goes on without a model.
LoadModel_Swallowed ==
    /\ pc = "load_model"
    /\ \/ /\ cached
          /\ model' = "rf"
          /\ UNCHANGED cache
       \/ /\ ~cached
          /\ modelFile = "ok"
          /\ artifactReads' = artifactReads + 1
          /\ cached' = TRUE
          /\ model' = "rf"
       \/ /\ ~cached
          /\ modelFile # "ok"
          /\ artifactReads' = artifactReads + 1
          /\ UNCHANGED <<cached, model>>
    /\ pc' = "page_config"
    /\ UNCHANGED <<files, session, widgets, animation, input_df, prediction,
                   df, fig, calls, out>>

\* model = load_model(), under @st.cache_resource: the cached value when
\* there is one; else joblib.load runs, and its value is cached when it
\* returns.  What it raises nothing catches: the run ends there.
LoadModel ==
    /\ pc = "load_model"
    /\ \/ /\ cached
          /\ model' = "rf"
          /\ pc' = "page_config"
          /\ UNCHANGED cache
       \/ /\ ~cached
          /\ modelFile = "ok"
          /\ artifactReads' = artifactReads + 1
          /\ cached' = TRUE
          /\ model' = "rf"
          /\ pc' = "page_config"
       \/ /\ ~cached
          /\ modelFile # "ok"
          /\ artifactReads' = artifactReads + 1
          /\ pc' = "aborted"
          /\ UNCHANGED <<cached, model>>
    /\ UNCHANGED <<files, session, widgets, animation, input_df, prediction,
                   df, fig, calls, out>>

\* st.set_page_config and the global CSS.
PageConfig ==
    /\ pc = "page_config"
    /\ out' = out \o <<"page_config", "css">>
    /\ pc' = "sidebar"
    /\ UNCHANGED <<files, cache, session, widgets, locals>>

\* menu = st.sidebar.radio("Navigation", [...]).
Sidebar ==
    /\ pc = "sidebar"
    /\ out' = Append(out, "navigation")
    /\ widgets' = widgets \cup {"menu"}
    /\ pc' = "load_lottie"
    /\ UNCHANGED <<files, cache, session, locals>>

\* load_lottie(path): open and json.load; "raise" when either fails.
load_lottie(file) ==
    CASE file = "ok" -> "data"
      [] file = "empty" -> "empty"
      [] OTHER -> "raise"

\* Mutant: load_lottie called outside any try.
LoadAnimation_Uncaught ==
    /\ pc = "load_lottie"
    /\ \/ /\ load_lottie(animFile) = "raise"
          /\ pc' = "aborted"
          /\ UNCHANGED animation
       \/ /\ load_lottie(animFile) # "raise"
          /\ animation' = load_lottie(animFile)
          /\ pc' = "home"
    /\ UNCHANGED <<files, cache, session, widgets, model, input_df, prediction,
                   df, fig, calls, out>>

\* try: animation = load_lottie("animation.json") / except: animation = None.
LoadAnimation ==
    /\ pc = "load_lottie"
    /\ animation' = IF load_lottie(animFile) = "raise"
                    THEN "None"
                    ELSE load_lottie(animFile)
    /\ pc' = "home"
    /\ UNCHANGED <<files, cache, session, widgets, model, input_df, prediction,
                   df, fig, calls, out>>

\* if menu == "Home": title, subtitle, the animation or the placeholder, the
\* feature list.
HomePage ==
    /\ pc = "home"
    /\ \/ /\ menu = "Home"
          /\ out' = out \o <<"home_title", "home_subtitle",
                             IF Truthy(animation) THEN "st_lottie"
                                                  ELSE "info_no_animation",
                             "rule", "features_header", "features">>
       \/ /\ menu # "Home"
          /\ out' = out
    /\ pc' = "predict"
    /\ UNCHANGED <<files, cache, session, widgets, locals>>

\* Mutant: model.predict called whether or not the button was clicked.
PredictPage_NoButtonGuard ==
    /\ pc = "predict"
    /\ \/ /\ menu = "Predict"
          /\ widgets' = widgets \cup {"form", "button"}
          /\ input_df' = Encode(form)
          /\ calls' = Append(calls, input_df')
          /\ \E p \in Charges : prediction' = <<p>>
          /\ out' = out \o <<"predict_title", "predict_subtitle", "inputs",
                             "predict_button", "result_card">>
       \/ /\ menu # "Predict"
          /\ UNCHANGED <<widgets, input_df, calls, prediction, out>>
    /\ pc' = "analytics"
    /\ UNCHANGED <<files, cache, session, model, animation, df, fig>>

\* if menu == "Predict": the six inputs, input_df, the button and, when it
\* was clicked, model.predict(input_df)[0] and the result card.
PredictPage ==
    /\ pc = "predict"
    /\ \/ /\ menu = "Predict"
          /\ widgets' = widgets \cup {"form", "button"}
          /\ input_df' = Encode(form)
          /\ \/ /\ button
                /\ calls' = Append(calls, input_df')
                /\ \E p \in Charges : prediction' = <<p>>
                /\ out' = out \o <<"predict_title", "predict_subtitle", "inputs",
                                   "predict_button", "result_card">>
             \/ /\ ~button
                /\ out' = out \o <<"predict_title", "predict_subtitle", "inputs",
                                   "predict_button">>
                /\ UNCHANGED <<calls, prediction>>
       \/ /\ menu # "Predict"
          /\ UNCHANGED <<widgets, input_df, calls, prediction, out>>
    /\ pc' = "analytics"
    /\ UNCHANGED <<files, cache, session, model, animation, df, fig>>

\* Mutant: read_csv and the charts outside any try.
AnalyticsPage_Uncaught ==
    /\ pc = "analytics"
    /\ \/ /\ menu = "Analytics"
          /\ \/ /\ dataFile \in {"missing", "corrupt"}
                /\ out' = out \o <<"analytics_title">>
                /\ pc' = "aborted"
                /\ UNCHANGED <<df, fig>>
             \/ /\ dataFile = "no_age"
                /\ df' = "dataset"
                /\ out' = out \o <<"analytics_title", "tabs">>
                /\ pc' = "aborted"
                /\ UNCHANGED fig
             \/ /\ dataFile = "no_bmi"
                /\ df' = "dataset"
                /\ fig' = "age"
                /\ out' = out \o <<"analytics_title", "tabs", "chart_age">>
                /\ pc' = "aborted"
             \/ /\ dataFile = "ok"
                /\ df' = "dataset"
                /\ fig' = "smoker"
                /\ out' = out \o <<"analytics_title", "tabs", "chart_age",
                                   "chart_bmi", "chart_smoker">>
                /\ pc' = "upload"
       \/ /\ menu # "Analytics"
          /\ pc' = "upload"
          /\ UNCHANGED <<df, fig, out>>
    /\ UNCHANGED <<files, cache, session, widgets, model, animation, input_df,
                   prediction, calls>>

\* if menu == "Analytics": the title, then under try: read_csv, the tabs and
\* the three charts; under except: the error message.  px.scatter raises on
\* a column the frame lacks (age for the first chart, bmi for the second).
AnalyticsPage ==
    /\ pc = "analytics"
    /\ \/ /\ menu = "Analytics"
          /\ \/ /\ dataFile \in {"missing", "corrupt"}
                /\ out' = out \o <<"analytics_title", "error_dataset">>
                /\ UNCHANGED <<df, fig>>
             \/ /\ dataFile = "no_age"
                /\ df' = "dataset"
                /\ out' = out \o <<"analytics_title", "tabs", "error_dataset">>
                /\ UNCHANGED fig
             \/ /\ dataFile = "no_bmi"
                /\ df' = "dataset"
                /\ fig' = "age"
                /\ out' = out \o <<"analytics_title", "tabs", "chart_age",
                                   "error_dataset">>
             \/ /\ dataFile = "ok"
                /\ df' = "dataset"
                /\ fig' = "smoker"
                /\ out' = out \o <<"analytics_title", "tabs", "chart_age",
                                   "chart_bmi", "chart_smoker">>
       \/ /\ menu # "Analytics"
          /\ UNCHANGED <<df, fig, out>>
    /\ pc' = "upload"
    /\ UNCHANGED <<files, cache, session, widgets, model, animation, input_df,
                   prediction, calls>>

\* if menu == "Upload Dataset": the title and the uploader; with a file,
\* read_csv (outside any try), the preview and the success message.
UploadPage ==
    /\ pc = "upload"
    /\ \/ /\ menu = "Upload"
          /\ widgets' = widgets \cup {"uploader"}
          /\ \/ /\ uploaded = "none"
                /\ out' = out \o <<"upload_title", "file_uploader">>
                /\ pc' = "footer"
                /\ UNCHANGED df
             \/ /\ uploaded = "ok"
                /\ df' = "uploaded"
                /\ out' = out \o <<"upload_title", "file_uploader",
                                   "preview_header", "dataframe", "success">>
                /\ pc' = "footer"
             \/ /\ uploaded = "bad"
                /\ out' = out \o <<"upload_title", "file_uploader">>
                /\ pc' = "aborted"
                /\ UNCHANGED df
       \/ /\ menu # "Upload"
          /\ pc' = "footer"
          /\ UNCHANGED <<widgets, df, out>>
    /\ UNCHANGED <<files, cache, session, model, animation, input_df,
                   prediction, fig, calls>>

\* The footer, the script's last statement.
Footer ==
    /\ pc = "footer"
    /\ out' = Append(out, "footer")
    /\ pc' = "done"
    /\ UNCHANGED <<files, cache, session, widgets, locals>>

Next ==
    \/ SetModelFile
    \/ SetAnimFile
    \/ SetDataFile
    \/ ProcessRestart
    \/ NewSession
    \/ Rerun
    \/ Navigate
    \/ EditForm
    \/ ClickPredict
    \/ UploadFile
    \/ LoadModel
    \/ PageConfig
    \/ Sidebar
    \/ LoadAnimation
    \/ HomePage
    \/ PredictPage
    \/ AnalyticsPage
    \/ UploadPage
    \/ Footer

Spec == Init /\ [][Next]_vars


(***************************************************************************)
(* The encoder on its own: lines 106-115 applied to any field values, the  *)
(* ones no widget offers included.                                         *)
(***************************************************************************)

EncForms ==
    [age : {35, MaxAge + 1}, bmi : {2750, MaxBmi + 1},
     children : {2, MaxChildren + 1},
     smoker : {"yes", "no", "Yes"},
     sex : {"male", "female", "Male"},
     region : {"northwest", "southeast", "southwest", "northeast",
               "Southwest", ""}]

EncInit ==
    /\ form \in EncForms
    /\ modelFile = "ok"
    /\ animFile = "ok"
    /\ dataFile = "ok"
    /\ cached = TRUE
    /\ artifactReads = 1
    /\ menu = "Predict"
    /\ button = FALSE
    /\ uploaded = "none"
    /\ widgets = {"menu"}
    /\ pc = "predict"
    /\ model = "rf"
    /\ animation = "data"
    /\ input_df = NoFrame
    /\ prediction = <<>>
    /\ df = "unset"
    /\ fig = "unset"
    /\ calls = <<>>
    /\ out = <<"page_config", "css", "navigation">>

\* input_df = pd.DataFrame({...}) of the field values at hand.
EncodeRequest ==
    /\ pc = "predict"
    /\ input_df' = Encode(form)
    /\ pc' = "analytics"
    /\ UNCHANGED <<files, cache, session, widgets, model, animation,
                   prediction, df, fig, calls, out>>

EncNext == EncodeRequest

EncSpec == EncInit /\ [][EncNext]_vars

(***************************************************************************)
(* Properties.                                                             *)
(***************************************************************************)

\* The value of column name in the one row of frame d.
Field(d, name) ==
    d.row[CHOOSE i \in DOMAIN d.columns : d.columns[i] = name]

RegionFlags(d) ==
    <<Field(d, "region_northwest"), Field(d, "region_southeast"),
      Field(d, "region_southwest")>>

Encoded == pc = "analytics" /\ input_df # NoFrame

\* C1: encoding northwest, southeast or southwest sets exactly the flag
\* named after the region; any other region string sets none of the three
\* flags, and the encoding completes all the same.
C1_RegionEncoding ==
    Encoded =>
        RegionFlags(input_df) =
            CASE form.region = "northwest" -> <<1, 0, 0>>
              [] form.region = "southeast" -> <<0, 1, 0>>
              [] form.region = "southwest" -> <<0, 0, 1>>
              [] OTHER -> <<0, 0, 0>>

C1_Witness ==
    /\ Encoded
    /\ form.region = "northeast"
    /\ RegionFlags(input_df) = <<0, 0, 0>>

\* C2: for smoker "yes" or "no", the smoker field is 1 exactly when smoker
\* is "yes", and 0 otherwise.
C2_SmokerEncoding ==
    (Encoded /\ form.smoker \in {"yes", "no"}) =>
        Field(input_df, "smoker") = (IF form.smoker = "yes" THEN 1 ELSE 0)

C2_Witness ==
    /\ Encoded
    /\ form.smoker = "yes"
    /\ Field(input_df, "smoker") = 1

\* C3: for sex "male" or "female", the sex_male field is 1 exactly when sex
\* is "male", and 0 otherwise.
C3_SexEncoding ==
    (Encoded /\ form.sex \in {"male", "female"}) =>
        Field(input_df, "sex_male") = (IF form.sex = "male" THEN 1 ELSE 0)

C3_Witness ==
    /\ Encoded
    /\ form.sex = "female"
    /\ Field(input_df, "sex_male") = 0

ExampleForm ==
    [age |-> 35, bmi |-> 2750, children |-> 2, smoker |-> "yes",
     sex |-> "female", region |-> "southeast"]

\* C4: what model.predict receives is one row of exactly eight fields in
\* the order age, bmi, children, smoker, sex_male, region_northwest,
\* region_southeast, region_southwest, whose first three are the entered
\* values; (35, 27.5, 2, yes, female, southeast) gives
\* [35, 27.5, 2, 1, 0, 0, 1, 0].
C4_VectorShape ==
    \A i \in DOMAIN calls :
        /\ calls[i].columns =
               <<"age", "bmi", "children", "smoker", "sex_male",
                 "region_northwest", "region_southeast", "region_southwest">>
        /\ Len(calls[i].row) = 8
        /\ calls[i].row[1] = form.age
        /\ calls[i].row[2] = form.bmi
        /\ calls[i].row[3] = form.children
        /\ form = ExampleForm =>
               calls[i].row = <<35, 2750, 2, 1, 0, 0, 1, 0>>

C4_Witness ==
    /\ Len(calls) = 1
    /\ form = ExampleForm
    /\ calls[1].row = <<35, 2750, 2, 1, 0, 0, 1, 0>>

\* C5, its states.
C5_Inv ==
    /\ cached => artifactReads >= 1
    /\ model = "rf" => cached
    /\ calls # <<>> => cached /\ model = "rf"

\* C5, its steps.
C5_Step ==
    /\ (cached /\ ~ProcessRestart) =>
           cached' /\ artifactReads' = artifactReads
    /\ (~cached /\ artifactReads' # artifactReads /\ ~ProcessRestart) =>
           /\ pc = "load_model"
           /\ artifactReads' = artifactReads + 1
           /\ cached' = (modelFile = "ok")
    /\ (pc = "load_model" /\ pc' # pc /\ ~cached /\ modelFile = "ok") =>
           cached' /\ model' = "rf"

\* C5: once load_model's value is cached it stays cached, and joblib.load
\* is not called again, until the process restarts; the artifact is read
\* only by a run that finds nothing cached, once, and a successful read is
\* cached; every prediction is made with the cached model.
C5_ModelMemoized == []C5_Inv /\ [][C5_Step]_vars

C5_Witness ==
    /\ pc = "done"
    /\ calls # <<>>
    /\ cached
    /\ artifactReads = 1
    /\ modelFile = "missing"


\* The script got past load_model in this run.
ModelLoaded == model = "rf"

\* C6, its states.
C6_Inv ==
    (pc \notin {"idle", "load_model"} /\ ~ModelLoaded) =>
        /\ pc = "aborted"
        /\ out = <<>>
        /\ widgets = {}
        /\ calls = <<>>
        /\ prediction = <<>>

\* C6, its steps.
C6_Step ==
    (pc = "load_model" /\ pc' # pc /\ ~cached /\ modelFile # "ok") =>
        pc' = "aborted" /\ ~cached' /\ out' = <<>>

\* C6: a run whose model load fails is aborted at that statement: it has
\* rendered nothing (no navigation, no page content, no footer), shown no
\* widget and called model.predict not once, whichever page is selected;
\* no run goes on without a model.
C6_MissingModelFatal == []C6_Inv /\ [][C6_Step]_vars

C6_Witness ==
    /\ pc = "aborted"
    /\ ~ModelLoaded
    /\ menu = "Predict"
    /\ button
    /\ out = <<>>

Last(s) == s[Len(s)]

\* C7, its states.
C7_Inv ==
    (/\ ModelLoaded
     /\ menu = "Analytics"
     /\ pc \in {"upload", "footer", "done", "aborted"}
     /\ df = "unset") =>
        /\ pc # "aborted"
        /\ \E i \in DOMAIN out : out[i] = "error_dataset"
        /\ \A i \in DOMAIN out :
               out[i] \notin {"tabs", "chart_age", "chart_bmi", "chart_smoker"}
        /\ pc = "done" => Last(out) = "footer"
        /\ pc # "done" => \A i \in DOMAIN out : out[i] # "footer"

\* C7, its steps.
C7_Step ==
    /\ (/\ pc = "analytics"
        /\ pc' # pc
        /\ menu = "Analytics"
        /\ dataFile \in {"missing", "corrupt"}) =>
           /\ pc' = "upload"
           /\ df' = "unset"
           /\ out' = out \o <<"analytics_title", "error_dataset">>
    /\ (pc \in {"upload", "footer"} /\ pc' # pc /\ menu = "Analytics") =>
           pc' \in {"footer", "done"}

\* C7: a run on the Analytics page in which reading insurance.csv fails is
\* not aborted: it renders the error message, neither the tabs nor a chart,
\* and goes on to the end of the script, the footer being the last element
\* rendered.
C7_MissingDatasetHandled == []C7_Inv /\ [][C7_Step]_vars

C7_Witness ==
    /\ pc = "done"
    /\ menu = "Analytics"
    /\ df = "unset"
    /\ dataFile = "corrupt"
    /\ out = <<"page_config", "css", "navigation", "analytics_title",
               "error_dataset", "footer">>

\* What a page other than Home renders, told from the session and from the
\* script's variables other than animation.
PageHead == <<"page_config", "css", "navigation">>

PageBody ==
    CASE menu = "Predict" ->
             <<"predict_title", "predict_subtitle", "inputs", "predict_button">>
             \o (IF button THEN <<"result_card">> ELSE <<>>)
      [] menu = "Analytics" ->
             <<"analytics_title">>
             \o (CASE df = "unset" -> <<"error_dataset">>
                   [] df # "unset" /\ fig = "unset" ->
                          <<"tabs", "error_dataset">>
                   [] df # "unset" /\ fig = "age" ->
                          <<"tabs", "chart_age", "error_dataset">>
                   [] OTHER ->
                          <<"tabs", "chart_age", "chart_bmi", "chart_smoker">>)
      [] menu = "Upload" ->
             <<"upload_title", "file_uploader">>
             \o (IF uploaded = "ok"
                 THEN <<"preview_header", "dataframe", "success">>
                 ELSE <<>>)
      [] OTHER -> <<>>

\* C8, its states.
C8_Inv ==
    /\ (ModelLoaded /\ animation = "None" /\ menu = "Home" /\ pc = "done") =>
           out = PageHead \o <<"home_title", "home_subtitle",
                               "info_no_animation", "rule", "features_header",
                               "features", "footer">>
    /\ (ModelLoaded /\ menu # "Home" /\ pc = "done") =>
           out = PageHead \o PageBody \o <<"footer">>
    /\ (ModelLoaded /\ pc = "aborted") =>
           /\ menu = "Upload"
           /\ uploaded = "bad"
           /\ animation # "unset"
           /\ out = PageHead \o PageBody

\* C8, its steps.
C8_Step ==
    (pc = "load_lottie" /\ pc' # pc /\ animFile \in {"missing", "corrupt"}) =>
        animation' = "None" /\ pc' = "home"

\* C8: when animation.json cannot be opened or parsed the run goes on with
\* animation None; the Home page then shows the placeholder where the
\* animation would be; a run on any other page renders what the page and
\* its own inputs determine, whatever became of the animation, and is
\* aborted by nothing but a bad upload.
C8_MissingAnimationNonFatal == []C8_Inv /\ [][C8_Step]_vars

C8_Witness ==
    /\ pc = "done"
    /\ menu = "Home"
    /\ animFile = "corrupt"
    /\ animation = "None"
    /\ \E i \in DOMAIN out : out[i] = "info_no_animation"

\* C9: a run calls model.predict at most once, and only on the Predict page
\* in the run the button's click started; the vector passed is the encoding
\* of that run's widget values; a run the click did not start binds no
\* prediction and shows no result card.
C9_PredictOnlyOnButton ==
    /\ Len(calls) <= 1
    /\ calls # <<>> =>
           /\ menu = "Predict"
           /\ button
           /\ calls[1] = input_df
           /\ input_df = Encode(form)
    /\ prediction # <<>> => calls # <<>>
    /\ (\E i \in DOMAIN out : out[i] = "result_card") => calls # <<>>
    /\ (pc = "done" /\ menu = "Predict" /\ button) =>
           /\ Len(calls) = 1
           /\ Len(prediction) = 1
           /\ \E i \in DOMAIN out : out[i] = "result_card"
    /\ (pc = "done" /\ menu # "Predict") => input_df = NoFrame

C9_Witness ==
    /\ pc = "done"
    /\ menu = "Predict"
    /\ ~button
    /\ form = ExampleForm
    /\ calls = <<>>
    /\ \A i \in DOMAIN out : out[i] # "result_card"

\* C10: every vector model.predict receives has exactly one of the three
\* region flags at 1, the others at 0.
C10_ReachableRegionFlags ==
    \A i \in DOMAIN calls :
        /\ \A j \in 1..3 : RegionFlags(calls[i])[j] \in {0, 1}
        /\ RegionFlags(calls[i])[1] + RegionFlags(calls[i])[2]
               + RegionFlags(calls[i])[3] = 1

C10_Witness ==
    /\ calls # <<>>
    /\ form.region = "southwest"
    /\ RegionFlags(calls[1]) = <<0, 0, 1>>

====
